---- MODULE Spec2Model ----
(***************************************************************************)
(* A model of cubeland's chunk.rs: the chunk cache (ChunkLoader, Chunk,    *)
(* Mesh and its Drop), and the greedy mesher (mesh_gen, expand_face,       *)
(* run_length, BlockBitmap, block_exists, Map::index, the faces table).    *)
(***************************************************************************)
EXTENDS Integers, Sequences, FiniteSets, TLC

(***************************************************************************)
(* Program constants.  CHUNK_SIZE and VISIBLE_RADIUS are imported from the *)
(* crate root (chunk.rs:37-38); MAX_CHUNKS is computed as chunk.rs:42 does. *)
(* CHUNK_SIZE is fixed when the crate is built: it is a variable that no   *)
(* action changes, so that the grids of the meshing scenarios (edge 4) and *)
(* a build whose terrain fits the water level (edge 16) are both covered.  *)
(***************************************************************************)
VISIBLE_RADIUS == 1

MAX_CHUNKS == (VISIBLE_RADIUS*2)*(VISIBLE_RADIUS*2)*2

\* the edge length of the meshing scenarios
ScenarioChunkSize == 4

\* an edge length above the water level
BuildChunkSize == 16

\* the edge lengths the cache is run with
ChunkSizes == {ScenarioChunkSize, BuildChunkSize}

\* the edge lengths terrain_gen is run with; with 32 a column can be higher
\* than 20
TerrainChunkSizes == ChunkSizes \cup {2 * BuildChunkSize}

(***************************************************************************)
(* Bounds of the model.                                                    *)
(***************************************************************************)
\* number of cells of the grid whose block type is enumerated
WinSize == 4

\* number of chunk coordinates the caller loads and touches at will
NumCoords == 2

\* largest reading of the monotonic clock
MaxTime == 2

CoordSeq == << <<0, 0>>, <<0, -1>>, <<1, 0>>, <<-1, 1>>, <<1, 1>>, <<2, -2>> >>

Coords == { CoordSeq[i] : i \in 1..NumCoords }

\* the chunks the caller loads first, in this order, and then leaves alone:
\* as many as it takes for the loads of Coords to bring the cache to
\* MAX_CHUNKS + 1 chunks
NumBackground == MAX_CHUNKS + 1 - NumCoords

BackgroundSeq == [i \in 1..NumBackground |-> <<10 + i, 10>>]

\* the world seeds a loader is built with
Seeds == {42}

VARIABLES
    CHUNK_SIZE, \* the grid edge length the crate is built with
    seed,       \* ChunkLoader.seed
    cache,      \* ChunkLoader.cache : (cx, cz) -> Chunk
    loader,     \* "live" while the ChunkLoader exists, "dropped" after teardown,
                \* "failed" once the task has failed
    clock,      \* the last reading of precise_time_ns
    buffers,    \* the buffer names the graphics context holds (GenBuffers .. DeleteBuffers)
    stale,      \* TRUE once DeleteBuffers was given a non-zero name that is not a buffer
    last,       \* what the last call did: its kind, arguments and observable effects
    \* a run of mesh_gen on one grid
    map,             \* the Map being meshed: map[x][y][z] is a block type
    chunk_position,  \* (chunk_x, 0, chunk_z)
    pc,              \* "idle", "faces" (in the loop over faces), "upload", "done",
                     \* "cached" (the chunk is in the cache), "dropped"
    face_i,          \* the number of faces done
    unmeshed_faces,  \* the BlockBitmap when the last merge pass ended
    vertices, normals, blocktypes, elements,
    face_ranges,     \* face.index -> (offset, count)
    quads,           \* for every quad emitted: its face, seed cell, dim and the mask it was cut from
    mesh,            \* the Mesh returned
    \* a single call of expand_face or run_length
    call,            \* its arguments, its position ("called", "returned") and its result
    \* terrain_gen on one column (block_x, block_z)
    terrain,         \* the column's height and dirt_height, the loop position, the blocks written
    \* one loop taken iteration by iteration
    loop             \* run_length's loop, the merge pass of a face, or load's eviction loop

cacheVars == <<seed, cache, loader, clock, buffers, stale, last>>

meshVars == <<CHUNK_SIZE, map, chunk_position, pc, face_i, unmeshed_faces, vertices, normals,
              blocktypes, elements, face_ranges, quads, mesh>>

auxVars == <<call, terrain, loop>>

(***************************************************************************)
(* The graphics boundary.                                                  *)
(***************************************************************************)
\* gl::GenBuffers(1, &mut name): a name that is not in use (the smallest one)
GenBuffers(live) ==
    CHOOSE n \in 1..(Cardinality(live) + 1) :
        n \notin live /\ \A m \in 1..(n - 1) : m \in live

\* gl::DeleteBuffers(1, &name) on the context gl = [live, stale]; name 0 is ignored
DeleteBuffers(gl, name) ==
    [live  |-> gl.live \ {name},
     stale |-> gl.stale \/ (name # 0 /\ name \notin gl.live)]

\* the four handles of a Mesh
MeshHandles(me) ==
    {me.vertex_buffer, me.normal_buffer, me.blocktype_buffer, me.element_buffer}

\* the upload run whether or not there are elements
mesh_upload_Always(nonempty, live) ==
    LET vb == GenBuffers(live)
        nb == GenBuffers(live \cup {vb})
        bb == GenBuffers(live \cup {vb, nb})
        eb == GenBuffers(live \cup {vb, nb, bb})
    IN  [vertex_buffer |-> vb, normal_buffer |-> nb,
         blocktype_buffer |-> bb, element_buffer |-> eb]

\* the upload at the end of mesh_gen: four GenBuffers/BufferData pairs when
\* there are elements, four null handles otherwise
mesh_upload(nonempty, live) ==
    IF nonempty
    THEN LET vb == GenBuffers(live)
             nb == GenBuffers(live \cup {vb})
             bb == GenBuffers(live \cup {vb, nb})
             eb == GenBuffers(live \cup {vb, nb, bb})
         IN  [vertex_buffer |-> vb, normal_buffer |-> nb,
              blocktype_buffer |-> bb, element_buffer |-> eb]
    ELSE [vertex_buffer |-> 0, normal_buffer |-> 0,
          blocktype_buffer |-> 0, element_buffer |-> 0]

\* impl Drop for Mesh
WrongDropMesh(gl, me) ==
    DeleteBuffers(DeleteBuffers(DeleteBuffers(gl,
        me.vertex_buffer), me.normal_buffer), me.blocktype_buffer)

DropMesh(gl, me) ==
    DeleteBuffers(DeleteBuffers(DeleteBuffers(DeleteBuffers(gl,
        me.vertex_buffer), me.normal_buffer), me.blocktype_buffer),
        me.element_buffer)

(***************************************************************************)
(* chunk_gen.  Inside the cache a chunk's grid is named by the arguments   *)
(* terrain_gen builds it from.  terrain_gen gives every column a height of *)
(* at least 1 and at most CHUNK_SIZE - 1, so the mesh of a generated chunk *)
(* always has elements and the upload always runs; and its water loop      *)
(* writes the layers from the height up to water_height - 1, so that with  *)
(* CHUNK_SIZE below water_height the write at layer CHUNK_SIZE fails the   *)
(* task before anything is meshed or uploaded.                             *)
(***************************************************************************)
\* line 258
water_height == 10

\* lines 259-261: blocks[block_x][y][block_z] with y = CHUNK_SIZE is out of bounds
terrain_gen_fails == CHUNK_SIZE < water_height

chunk_gen(s, chunk_x, chunk_z, live, now) ==
    IF terrain_gen_fails
    THEN [failed |-> TRUE]
    ELSE [failed |-> FALSE,
          chunk |-> [x |-> chunk_x, z |-> chunk_z,
                     map |-> <<s, chunk_x, chunk_z>>,
                     mesh |-> mesh_upload(TRUE, live),
                     used_time |-> now]]

(***************************************************************************)
(* HashMap operations used by load.                                        *)
(***************************************************************************)
\* HashMap::insert: the value of an existing key is replaced
WrongInsert(c, k, v) ==
    [j \in DOMAIN c \cup {k} |-> IF j \in DOMAIN c THEN c[j] ELSE v]

\* an insert that also stamps the other entries with the new chunk's time
Insert_Refresh(c, k, v) ==
    [j \in DOMAIN c \cup {k} |->
        IF j = k THEN v ELSE [c[j] EXCEPT !.used_time = v.used_time]]

Insert(c, k, v) ==
    [j \in DOMAIN c \cup {k} |-> IF j = k THEN v ELSE c[j]]

\* HashMap::remove
Remove(c, k) == [j \in DOMAIN c \ {k} |-> c[j]]

\* a min_by that finds no entry
MinBy_None(c) == {}

\* cache.iter().min_by(|chunk| chunk.used_time): the first entry of the
\* iteration whose used_time is minimal; the iteration order of a HashMap is
\* arbitrary, so any entry with the smallest used_time
WrongMinBy(c) ==
    {k \in DOMAIN c : \A j \in DOMAIN c : c[k].used_time >= c[j].used_time}

MinBy(c) ==
    {k \in DOMAIN c : \A j \in DOMAIN c : c[k].used_time <= c[j].used_time}

\* the loop with `>=` for `>`
RECURSIVE EagerEvictLoop(_, _, _, _)
EagerEvictLoop(c, gl, evicted, released) ==
    IF Cardinality(DOMAIN c) >= MAX_CHUNKS /\ DOMAIN c # {}
    THEN UNION { EagerEvictLoop(Remove(c, k), DropMesh(gl, c[k].mesh),
                                Append(evicted, [key |-> k, used_time |-> c[k].used_time,
                                                 mesh |-> c[k].mesh]),
                                released \cup (MeshHandles(c[k].mesh) \ {0}))
                 : k \in MinBy(c) }
    ELSE {[cache |-> c, gl |-> gl, evicted |-> evicted, released |-> released]}

NoEvictLoop(c, gl, evicted, released) ==
    {[cache |-> c, gl |-> gl, evicted |-> evicted, released |-> released]}

\* the while loop of load: every outcome [cache, gl, evicted, released];
\* evicted lists the removed entries (key, used_time, mesh) in removal order
RECURSIVE EvictLoop(_, _, _, _)
EvictLoop(c, gl, evicted, released) ==
    IF Cardinality(DOMAIN c) > MAX_CHUNKS
    THEN UNION { EvictLoop(Remove(c, k), DropMesh(gl, c[k].mesh),
                           Append(evicted, [key |-> k, used_time |-> c[k].used_time,
                                            mesh |-> c[k].mesh]),
                           released \cup (MeshHandles(c[k].mesh) \ {0}))
                 : k \in MinBy(c) }
    ELSE {[cache |-> c, gl |-> gl, evicted |-> evicted, released |-> released]}

\* ChunkLoader::load(cx, cz): the outcomes of the call when the clock reads
\* `now` at the end of chunk_gen; when chunk_gen fails the task nothing of the
\* loader has been changed
load(c, gl, s, cx, cz, now) ==
    LET gen      == chunk_gen(s, cx, cz, gl.live, now)
        chunk    == gen.chunk
        gl1      == [gl EXCEPT !.live = @ \cup (MeshHandles(chunk.mesh) \ {0})]
        replaced == <<cx, cz>> \in DOMAIN c
        gl2      == IF replaced THEN DropMesh(gl1, c[<<cx, cz>>].mesh) ELSE gl1
        rel      == IF replaced THEN MeshHandles(c[<<cx, cz>>].mesh) \ {0} ELSE {}
        c1       == Insert(c, <<cx, cz>>, chunk)
    IN  IF gen.failed
        THEN { [failed |-> TRUE, cache |-> c, gl |-> gl, evicted |-> <<>>,
                released |-> {}, replaced |-> FALSE, created |-> {}] }
        ELSE { [failed |-> FALSE, cache |-> r.cache, gl |-> r.gl, evicted |-> r.evicted,
                released |-> r.released, replaced |-> replaced,
                created |-> MeshHandles(chunk.mesh) \ {0}]
               : r \in EvictLoop(c1, gl2, <<>>, rel) }

\* Chunk::touch on the cached chunk at k
touch(c, k, now) == [c EXCEPT ![k].used_time = now]

\* dropping the ChunkLoader drops every chunk of the cache
RECURSIVE DropAll(_, _)
DropAll(c, gl) ==
    IF DOMAIN c = {} THEN gl
    ELSE LET k == CHOOSE j \in DOMAIN c : TRUE
         IN  DropAll(Remove(c, k), DropMesh(gl, c[k].mesh))

(***************************************************************************)
(* The voxel grid.                                                         *)
(***************************************************************************)
NUM_FACES == 6

BlockAir == 0

BlockGrass == 1

BlockStone == 2

BlockDirt == 3

BlockWater == 4

Axis == 0..(CHUNK_SIZE - 1)

Cells == Axis \X Axis \X Axis

VecAdd(a, b) == <<a[1] + b[1], a[2] + b[2], a[3] + b[3]>>

\* Vec3::mul_s
VecScale(a, n) == <<a[1] * n, a[2] * n, a[3] * n>>

\* Vec3::mul_v
VecMul(a, b) == <<a[1] * b[1], a[2] * b[2], a[3] * b[3]>>

\* Block::is_opaque
is_opaque(blocktype) == blocktype # BlockAir

None == [some |-> FALSE, blocktype |-> BlockAir]

Some(blocktype) == [some |-> TRUE, blocktype |-> blocktype]

\* the lookup without the range check, reading the block the linear index
\* x*S*S + y*S + z falls on
Map_index_Wrap(m, x, y, z) ==
    LET n == (x * CHUNK_SIZE * CHUNK_SIZE + y * CHUNK_SIZE + z)
                 % (CHUNK_SIZE * CHUNK_SIZE * CHUNK_SIZE)
    IN  Some(m[n \div (CHUNK_SIZE * CHUNK_SIZE)][(n \div CHUNK_SIZE) % CHUNK_SIZE][n % CHUNK_SIZE])

\* Map::index
Map_index(m, x, y, z) ==
    IF x < 0 \/ x >= CHUNK_SIZE \/ y < 0 \/ y >= CHUNK_SIZE \/ z < 0 \/ z >= CHUNK_SIZE
    THEN None
    ELSE Some(m[x][y][z])

\* the match of block_exists: Some(block) => block.is_opaque(), None => false
opaque_block(b) == IF b.some THEN is_opaque(b.blocktype) ELSE FALSE

\* block_exists without the rule for the cells below the grid
block_exists_NoFloor(m, x, y, z) == opaque_block(Map_index(m, x, y, z))

\* block_exists
block_exists(m, x, y, z) ==
    IF y < 0
    THEN TRUE
    ELSE opaque_block(Map_index(m, x, y, z))

(***************************************************************************)
(* BlockBitmap: a BitvSet of linear indices.                               *)
(***************************************************************************)
BlockBitmap_index(x, y, z) == x * CHUNK_SIZE * CHUNK_SIZE + y * CHUNK_SIZE + z

BlockBitmap_contains(set, x, y, z) == BlockBitmap_index(x, y, z) \in set

BlockBitmap_insert(set, x, y, z) == set \cup {BlockBitmap_index(x, y, z)}

BlockBitmap_remove(set, x, y, z) == set \ {BlockBitmap_index(x, y, z)}

(***************************************************************************)
(* The tables.                                                             *)
(***************************************************************************)
face_elements == <<0, 1, 2, 3, 2, 1>>

faces == <<
    \* front
    [index |-> 0, normal |-> <<0, 0, 1>>,
     di |-> <<0, 0, 1>>, dj |-> <<1, 0, 0>>, dk |-> <<0, 1, 0>>,
     vertices |-> << <<0, 0, 1>>, <<1, 0, 1>>, <<0, 1, 1>>, <<1, 1, 1>> >>],
    \* back
    [index |-> 1, normal |-> <<0, 0, -1>>,
     di |-> <<0, 0, 1>>, dj |-> <<1, 0, 0>>, dk |-> <<0, 1, 0>>,
     vertices |-> << <<1, 0, 0>>, <<0, 0, 0>>, <<1, 1, 0>>, <<0, 1, 0>> >>],
    \* right
    [index |-> 2, normal |-> <<1, 0, 0>>,
     di |-> <<1, 0, 0>>, dj |-> <<0, 1, 0>>, dk |-> <<0, 0, 1>>,
     vertices |-> << <<1, 0, 1>>, <<1, 0, 0>>, <<1, 1, 1>>, <<1, 1, 0>> >>],
    \* left
    [index |-> 3, normal |-> <<-1, 0, 0>>,
     di |-> <<1, 0, 0>>, dj |-> <<0, 1, 0>>, dk |-> <<0, 0, 1>>,
     vertices |-> << <<0, 0, 0>>, <<0, 0, 1>>, <<0, 1, 0>>, <<0, 1, 1>> >>],
    \* top
    [index |-> 4, normal |-> <<0, 1, 0>>,
     di |-> <<0, 1, 0>>, dj |-> <<1, 0, 0>>, dk |-> <<0, 0, 1>>,
     vertices |-> << <<0, 1, 1>>, <<1, 1, 1>>, <<0, 1, 0>>, <<1, 1, 0>> >>],
    \* bottom
    [index |-> 5, normal |-> <<0, -1, 0>>,
     di |-> <<0, 1, 0>>, dj |-> <<1, 0, 0>>, dk |-> <<0, 0, 1>>,
     vertices |-> << <<0, 0, 0>>, <<1, 0, 0>>, <<0, 0, 1>>, <<1, 0, 1>> >>]
>>

(***************************************************************************)
(* run_length and expand_face.                                             *)
(***************************************************************************)
\* the loop of run_length, q being p after p.add_self_v(&dp)
\* the match of run_length with the guard on the block type left out
any_block(b, blocktype) == b.some

\* the match of run_length on map.index(p): Some(b) with the seed's type
same_type(b, blocktype) == b.some /\ b.blocktype = blocktype

\* lines 445-456: whether the loop goes on at q, the cell p was moved to
run_continues(m, unmeshed, blocktype, q) ==
    IF BlockBitmap_contains(unmeshed, q[1], q[2], q[3])
    THEN same_type(Map_index(m, q[1], q[2], q[3]), blocktype)
    ELSE FALSE

RECURSIVE run_loop(_, _, _, _, _, _)
run_loop(m, unmeshed, blocktype, q, dp, len) ==
    IF run_continues(m, unmeshed, blocktype, q)
    THEN run_loop(m, unmeshed, blocktype, VecAdd(q, dp), dp, len + 1)
    ELSE len

\* a run that never grows past the start cell
run_length_One(m, unmeshed, p, dp) == 1

run_length(m, unmeshed, p, dp) ==
    run_loop(m, unmeshed, m[p[1]][p[2]][p[3]], VecAdd(p, dp), dp, 1)

\* the largest element for the smallest
SetMin_Max(S) == CHOOSE n \in S : \A o \in S : n >= o

\* Iterator::min over a set of run lengths
SetMin(S) == CHOOSE n \in S : \A o \in S : n <= o

\* the value expand_face returns for the runs len_k and len_j
face_dim(face, len_k, len_j) ==
    VecAdd(VecAdd(<<1, 1, 1>>, VecScale(face.dk, len_k - 1)),
           VecScale(face.dj, len_j - 1))

\* the second half of expand_face with the extent along dj left at one cell
expand_rows_Single(m, unmeshed, face, p, len_k) == face_dim(face, len_k, 1)

\* the second half of expand_face: len_j is the shortest run along dj over the
\* len_k cells of the run along dk
expand_rows(m, unmeshed, face, p, len_k) ==
    face_dim(face, len_k,
             SetMin({ run_length(m, unmeshed, VecAdd(p, VecScale(face.dk, k)), face.dj)
                      : k \in 0..(len_k - 1) }))

\* expand_face taking the run along dj of the seed's row only
expand_face_FirstRow(m, unmeshed, face, p) ==
    face_dim(face, run_length(m, unmeshed, p, face.dk),
             run_length(m, unmeshed, p, face.dj))

expand_face(m, unmeshed, face, p) ==
    expand_rows(m, unmeshed, face, p, run_length(m, unmeshed, p, face.dk))

(***************************************************************************)
(* mesh_gen, one face orientation at a time.                               *)
(***************************************************************************)
\* the first loop nest of the face: the mask of the exposed faces
exposure_pass(m, face) ==
    { BlockBitmap_index(c[1], c[2], c[3]) :
        c \in { d \in Cells :
                  /\ m[d[1]][d[2]][d[3]] # BlockAir
                  /\ ~block_exists(m, d[1] + face.normal[1], d[2] + face.normal[2],
                                   d[3] + face.normal[3]) } }

\* the cells unmeshed_faces.remove is called for
removed_cells(p, dim) ==
    { BlockBitmap_index(p[1] + dx, p[2] + dy, p[3] + dz) :
        dx \in 0..(dim[1] - 1), dy \in 0..(dim[2] - 1), dz \in 0..(dim[3] - 1) }

\* the pushes of a quad with the elements left relative to the quad
push_quad_NoBase(chunk_pos, face, p, dim, blocktype, st) ==
    [unmeshed   |-> st.unmeshed \ removed_cells(p, dim),
     vertices   |-> st.vertices \o
                      [n \in 1..4 |-> VecAdd(VecAdd(VecMul(face.vertices[n], dim), p),
                                             chunk_pos)],
     normals    |-> st.normals \o [n \in 1..4 |-> face.normal],
     blocktypes |-> st.blocktypes \o [n \in 1..4 |-> blocktype],
     elements   |-> st.elements \o [n \in 1..6 |-> face_elements[n]],
     quads      |-> Append(st.quads, [face |-> face.index, p |-> p, dim |-> dim,
                                      mask |-> st.unmeshed])]

\* lines 340-357 for a quad of extent dim seeded at p: the mask is cleared and
\* 4 vertices, normals and block types and 6 elements are pushed.
\* st = [unmeshed, vertices, normals, blocktypes, elements, quads]
push_quad(chunk_pos, face, p, dim, blocktype, st) ==
    [unmeshed   |-> st.unmeshed \ removed_cells(p, dim),
     vertices   |-> st.vertices \o
                      [n \in 1..4 |-> VecAdd(VecAdd(VecMul(face.vertices[n], dim), p),
                                             chunk_pos)],
     normals    |-> st.normals \o [n \in 1..4 |-> face.normal],
     blocktypes |-> st.blocktypes \o [n \in 1..4 |-> blocktype],
     elements   |-> st.elements \o
                      [n \in 1..6 |-> Len(st.vertices) + face_elements[n]],
     quads      |-> Append(st.quads, [face |-> face.index, p |-> p, dim |-> dim,
                                      mask |-> st.unmeshed])]

\* the body of the innermost loop for a masked cell p: one quad is emitted
emit_quad(m, chunk_pos, face, p, st) ==
    push_quad(chunk_pos, face, p, expand_face(m, st.unmeshed, face, p),
              m[p[1]][p[2]][p[3]], st)

\* the cell the loops over i, j, k visit n-th: n = i*S*S + j*S + k
scan_cell(face, n) ==
    VecAdd(VecAdd(VecScale(face.di, n \div (CHUNK_SIZE * CHUNK_SIZE)),
                  VecScale(face.dj, (n \div CHUNK_SIZE) % CHUNK_SIZE)),
           VecScale(face.dk, n % CHUNK_SIZE))

\* the body of the innermost loop at scan position n
merge_step(m, chunk_pos, face, n, st) ==
    IF ~BlockBitmap_contains(st.unmeshed, scan_cell(face, n)[1],
                             scan_cell(face, n)[2], scan_cell(face, n)[3])
    THEN st
    ELSE emit_quad(m, chunk_pos, face, scan_cell(face, n), st)

\* the second loop nest of the face from scan position n on: a cell that is
\* not in the mask is skipped, a masked cell seeds a quad
RECURSIVE merge_pass(_, _, _, _, _)
merge_pass(m, chunk_pos, face, n, st) ==
    IF n = CHUNK_SIZE * CHUNK_SIZE * CHUNK_SIZE
    THEN st
    ELSE IF ~BlockBitmap_contains(st.unmeshed, scan_cell(face, n)[1],
                                  scan_cell(face, n)[2], scan_cell(face, n)[3])
         THEN merge_pass(m, chunk_pos, face, n + 1, st)
         ELSE merge_pass(m, chunk_pos, face, n + 1,
                         emit_quad(m, chunk_pos, face, scan_cell(face, n), st))

\* the range with the count left as the end offset
face_range_End(num_elements_start, elems) == <<num_elements_start, Len(elems)>>

\* line 362: the (offset, count) recorded for the face
face_range(num_elements_start, elems) ==
    <<num_elements_start, Len(elems) - num_elements_start>>

\* one iteration of `for face in faces.iter()`
mesh_face(m, chunk_pos, face, st) ==
    merge_pass(m, chunk_pos, face, 0,
               [st EXCEPT !.unmeshed = exposure_pass(m, face)])

(***************************************************************************)
(* The cache as a state machine.                                           *)
(***************************************************************************)
NoCall ==
    [op |-> "new", coord |-> <<0, 0>>, evicted |-> <<>>, released |-> {},
     created |-> {}, replaced |-> FALSE, upload_failed |-> FALSE, ret |-> "unit"]

EmptyCache == [k \in {} |-> 0]

\* ChunkLoader::new(seed)
CacheInit ==
    /\ seed \in Seeds
    /\ cache = EmptyCache
    /\ loader = "live"
    /\ clock = 0
    /\ buffers = {}
    /\ stale = FALSE
    /\ last = NoCall

\* the coordinates the caller passes to load: the background chunks one after
\* the other until they are all cached, any of Coords from then on
LoadCoords(c) ==
    IF Cardinality(DOMAIN c) < NumBackground
    THEN {BackgroundSeq[Cardinality(DOMAIN c) + 1]}
    ELSE Coords

\* what precise_time_ns reads in chunk_gen, never less than the reading before:
\* while the background chunks are loaded the clock may move on by one before
\* the second and before the third of them, and stands still for the rest
LoadReadings(c, t) ==
    IF Cardinality(DOMAIN c) \in {1, 2} THEN { n \in {t, t + 1} : n <= MaxTime }
    ELSE IF Cardinality(DOMAIN c) < NumBackground THEN {t}
    ELSE t..MaxTime

\* the chunks the caller touches once the background chunks are loaded: those
\* of Coords and the background chunk it loaded first
TouchCoords(c) ==
    IF Cardinality(DOMAIN c) < NumBackground THEN {}
    ELSE Coords \cup {BackgroundSeq[1]}

\* loader.load(cx, cz); upload_ok is whether the BufferData calls succeeded.
\* A failure inside chunk_gen fails the task: load does not return, and the
\* unwinding drops the ChunkLoader with the chunks it holds
Load ==
    /\ loader = "live"
    /\ \E k \in LoadCoords(cache), now \in LoadReadings(cache, clock), upload_ok \in BOOLEAN :
        \E r \in load(cache, [live |-> buffers, stale |-> stale], seed, k[1], k[2], now) :
            IF r.failed
            THEN LET gl == DropAll(r.cache, r.gl)
                 IN  /\ cache' = EmptyCache
                     /\ buffers' = gl.live
                     /\ stale' = gl.stale
                     /\ loader' = "failed"
                     /\ clock' = clock
                     /\ last' = [NoCall EXCEPT !.op = "fail", !.coord = k,
                                                !.released = buffers \ gl.live,
                                                !.ret = "task failure"]
            ELSE /\ cache' = r.cache
                 /\ buffers' = r.gl.live
                 /\ stale' = r.gl.stale
                 /\ loader' = loader
                 /\ clock' = now
                 /\ last' = [op |-> "load", coord |-> k, evicted |-> r.evicted,
                             released |-> r.released, created |-> r.created,
                             replaced |-> r.replaced,
                             upload_failed |-> ~upload_ok, ret |-> "unit"]
    /\ UNCHANGED seed
    /\ UNCHANGED meshVars
    /\ UNCHANGED auxVars

\* chunk.touch() on a cached chunk the caller names
Touch ==
    /\ loader = "live"
    /\ \E k \in TouchCoords(cache) \cap DOMAIN cache, now \in clock..MaxTime :
        /\ cache' = touch(cache, k, now)
        /\ clock' = now
        /\ last' = [NoCall EXCEPT !.op = "touch", !.coord = k]
    /\ UNCHANGED <<seed, loader, buffers, stale>>
    /\ UNCHANGED meshVars
    /\ UNCHANGED auxVars

\* the ChunkLoader goes out of scope
Teardown ==
    /\ loader = "live"
    /\ LET gl == DropAll(cache, [live |-> buffers, stale |-> stale])
       IN  /\ buffers' = gl.live
           /\ stale' = gl.stale
           /\ last' = [NoCall EXCEPT !.op = "drop", !.released = buffers \ gl.live]
    /\ cache' = EmptyCache
    /\ loader' = "dropped"
    /\ UNCHANGED <<seed, clock>>
    /\ UNCHANGED meshVars
    /\ UNCHANGED auxVars

(***************************************************************************)
(* mesh_gen as a state machine over hand-built grids.                      *)
(***************************************************************************)
Grid(g) == [x \in Axis |-> [y \in Axis |-> [z \in Axis |-> g[<<x, y, z>>]]]]

\* the cells whose type is enumerated, in the order WinSize takes them
WindowCells ==
    << <<0, 0, 0>>, <<0, 0, 1>>, <<1, 0, 0>>, <<2, 0, 0>>, <<0, 1, 0>>, <<0, 0, 3>>,
       <<3, 3, 3>>, <<1, 0, 1>> >>

Window == { WindowCells[n] : n \in 1..WinSize }

WindowTypes == {BlockAir, BlockStone, BlockDirt}

Backgrounds == {BlockAir, BlockStone}

WindowGrids ==
    { Grid([c \in Cells |-> IF c \in Window THEN w[c] ELSE bg]) :
        w \in [Window -> WindowTypes], bg \in Backgrounds }

\* a Stone column at (0, 0..2, 0), Air elsewhere
ColumnGrid ==
    Grid([c \in Cells |-> IF c[1] = 0 /\ c[3] = 0 /\ c[2] <= 2 THEN BlockStone ELSE BlockAir])

UniformGrid(blocktype) == Grid([c \in Cells |-> blocktype])

ScenarioGrids ==
    {ColumnGrid}
        \cup { UniformGrid(t) : t \in {BlockAir, BlockGrass, BlockStone, BlockDirt, BlockWater} }

ChunkPositions == { <<0, 0, 0>>, <<-4, 0, 8>> }

\* the arguments of mesh_gen: every window grid at one chunk position, the
\* scenario grids at each
MeshInputs ==
    (WindowGrids \X { <<-4, 0, 8>> }) \cup (ScenarioGrids \X ChunkPositions)

\* lines 365-368: the four handles before the upload
NoMesh ==
    [vertex_buffer |-> 0, normal_buffer |-> 0, blocktype_buffer |-> 0, element_buffer |-> 0]

NoRanges == [f \in 0..(NUM_FACES - 1) |-> <<0, 0>>]

MeshIdle ==
    /\ map = <<>>
    /\ chunk_position = <<0, 0, 0>>
    /\ pc = "idle"
    /\ face_i = 0
    /\ unmeshed_faces = {}
    /\ vertices = <<>> /\ normals = <<>> /\ blocktypes = <<>> /\ elements = <<>>
    /\ face_ranges = NoRanges
    /\ quads = <<>>
    /\ mesh = NoMesh

\* no call of expand_face or run_length is under way
NoExpand ==
    [fn |-> "none", pc |-> "idle", map |-> <<>>, unmeshed |-> {}, face |-> 0,
     p |-> <<0, 0, 0>>, dp |-> <<0, 0, 0>>, dim |-> <<0, 0, 0>>, len |-> 0]

\* terrain_gen is not running
NoTerrain ==
    [pc |-> "idle", height |-> 0, dirt_height |-> 0, y |-> 0, column |-> <<>>]

\* no loop is being followed
NoLoop == [kind |-> "none", pc |-> "idle"]

AuxIdle == call = NoExpand /\ terrain = NoTerrain /\ loop = NoLoop

CacheIdle ==
    /\ seed \in Seeds
    /\ cache = EmptyCache
    /\ loader = "live"
    /\ clock = 0
    /\ buffers = {}
    /\ stale = FALSE
    /\ last = NoCall

\* mesh_gen(chunk_x, chunk_z, map) is entered: lines 274-292
MeshInit ==
    /\ CHUNK_SIZE = ScenarioChunkSize
    /\ \E input \in MeshInputs :
          /\ map = input[1]
          /\ chunk_position = input[2]
    /\ pc = "faces"
    /\ face_i = 0
    /\ unmeshed_faces = {}
    /\ vertices = <<>> /\ normals = <<>> /\ blocktypes = <<>> /\ elements = <<>>
    /\ face_ranges = NoRanges
    /\ quads = <<>>
    /\ mesh = NoMesh
    /\ CacheIdle
    /\ AuxIdle

\* one iteration of the loop over faces: lines 294-363
MeshFace ==
    /\ pc = "faces"
    /\ face_i < NUM_FACES
    /\ LET face == faces[face_i + 1]
           num_elements_start == Len(elements)
       IN  \E st \in { mesh_face(map, chunk_position, face,
                                 [unmeshed |-> {}, vertices |-> vertices,
                                  normals |-> normals, blocktypes |-> blocktypes,
                                  elements |-> elements, quads |-> quads]) } :
           /\ unmeshed_faces' = st.unmeshed
           /\ vertices' = st.vertices
           /\ normals' = st.normals
           /\ blocktypes' = st.blocktypes
           /\ elements' = st.elements
           /\ quads' = st.quads
           /\ face_ranges' = [face_ranges EXCEPT ![face.index] =
                                face_range(num_elements_start, st.elements)]
    /\ face_i' = face_i + 1
    /\ pc' = IF face_i + 1 = NUM_FACES THEN "upload" ELSE "faces"
    /\ UNCHANGED <<CHUNK_SIZE, map, chunk_position, mesh>>
    /\ UNCHANGED cacheVars
    /\ UNCHANGED auxVars

\* the upload and the Mesh returned: lines 365-419
MeshUpload ==
    /\ pc = "upload"
    /\ mesh' = mesh_upload(elements # <<>>, buffers)
    /\ buffers' = buffers \cup (MeshHandles(mesh') \ {0})
    /\ pc' = "done"
    /\ UNCHANGED <<CHUNK_SIZE, map, chunk_position, face_i, unmeshed_faces, vertices, normals,
                   blocktypes, elements, face_ranges, quads>>
    /\ UNCHANGED <<seed, cache, loader, clock, stale, last>>
    /\ UNCHANGED auxVars

\* the mesh is wrapped in a Chunk as chunk_gen wraps it (lines 184-190) and the
\* chunk is inserted as load inserts it, eviction loop included (lines 70-75)
MeshCached ==
    /\ pc = "done"
    /\ LET k     == <<chunk_position[1], chunk_position[3]>>
           chunk == [x |-> k[1], z |-> k[2], map |-> map, mesh |-> mesh,
                     used_time |-> clock]
       IN  \E r \in EvictLoop(Insert(cache, k, chunk),
                              [live |-> buffers, stale |-> stale], <<>>, {}) :
              /\ cache' = r.cache
              /\ buffers' = r.gl.live
              /\ stale' = r.gl.stale
              /\ last' = [op |-> "load", coord |-> k, evicted |-> r.evicted,
                          released |-> r.released,
                          created |-> MeshHandles(mesh) \ {0}, replaced |-> FALSE,
                          upload_failed |-> FALSE, ret |-> "unit"]
    /\ pc' = "cached"
    /\ UNCHANGED <<seed, loader, clock>>
    /\ UNCHANGED <<CHUNK_SIZE, map, chunk_position, face_i, unmeshed_faces, vertices, normals,
                   blocktypes, elements, face_ranges, quads, mesh>>
    /\ UNCHANGED auxVars

\* the ChunkLoader holding the chunk goes out of scope
MeshDropped ==
    /\ pc = "cached"
    /\ LET gl == DropAll(cache, [live |-> buffers, stale |-> stale])
       IN  /\ buffers' = gl.live
           /\ stale' = gl.stale
           /\ last' = [NoCall EXCEPT !.op = "drop", !.released = buffers \ gl.live]
    /\ cache' = EmptyCache
    /\ loader' = "dropped"
    /\ pc' = "dropped"
    /\ UNCHANGED <<seed, clock>>
    /\ UNCHANGED <<CHUNK_SIZE, map, chunk_position, face_i, unmeshed_faces, vertices, normals,
                   blocktypes, elements, face_ranges, quads, mesh>>
    /\ UNCHANGED auxVars

vars == <<cacheVars, meshVars, auxVars>>

Init == CHUNK_SIZE \in ChunkSizes /\ CacheInit /\ MeshIdle /\ AuxIdle

Next == Load \/ Touch \/ Teardown

Spec == Init /\ [][Next]_vars

MeshNext == MeshFace \/ MeshUpload \/ MeshCached \/ MeshDropped

SpecMesh == MeshInit /\ [][MeshNext]_vars

(***************************************************************************)
(* Single calls of expand_face and run_length on grids and masks that need *)
(* not come from an exposure pass.                                         *)
(***************************************************************************)
\* the number of cells whose membership in the mask is enumerated
MaskSize == 7

\* those cells, in the order MaskSize takes them
MaskCellSeq ==
    << <<0, 0, 0>>, <<0, 0, 1>>, <<1, 0, 0>>, <<2, 0, 0>>, <<0, 0, 3>>, <<0, 1, 0>>,
       <<0, 0, 2>>, <<0, 3, 0>> >>

MaskCells == { MaskCellSeq[n] : n \in 1..MaskSize }

\* the masks: what BlockBitmap::insert leaves for each set of those cells
Masks == { { BlockBitmap_index(c[1], c[2], c[3]) : c \in S } : S \in SUBSET MaskCells }

\* Stone with Dirt in the plane z = 1 and in the plane x = 2
BandedGrid ==
    Grid([c \in Cells |-> IF c[3] = 1 \/ c[1] = 2 THEN BlockDirt ELSE BlockStone])

ExpandGrids == {UniformGrid(BlockStone), BandedGrid}

Directions == { <<1, 0, 0>>, <<0, 1, 0>>, <<0, 0, 1>> }

\* the masked cells a call on mask u can start from
Seeds_of(u) == { c \in MaskCells : BlockBitmap_contains(u, c[1], c[2], c[3]) }

\* a call of expand_face for a face, or of run_length for a direction, on a
\* grid and a mask, from a masked cell
ExpandInit ==
    /\ CHUNK_SIZE = ScenarioChunkSize
    /\ \E g \in ExpandGrids, u \in Masks :
          \E q \in Seeds_of(u) :
              \/ \E f \in 0..(NUM_FACES - 1) :
                    call = [NoExpand EXCEPT !.fn = "expand_face", !.pc = "called",
                                            !.map = g, !.unmeshed = u, !.face = f, !.p = q]
              \/ \E d \in Directions :
                    call = [NoExpand EXCEPT !.fn = "run_length", !.pc = "called",
                                            !.map = g, !.unmeshed = u, !.dp = d, !.p = q]
    /\ terrain = NoTerrain
    /\ loop = NoLoop
    /\ CacheIdle
    /\ MeshIdle

\* expand_face(map, &unmeshed_faces, face, p) returns
ExpandFace ==
    /\ call.fn = "expand_face"
    /\ call.pc = "called"
    /\ call' = [call EXCEPT !.pc = "returned",
                            !.dim = expand_face(call.map, call.unmeshed,
                                                faces[call.face + 1], call.p)]
    /\ UNCHANGED cacheVars
    /\ UNCHANGED meshVars
    /\ UNCHANGED <<terrain, loop>>

\* run_length(map, &unmeshed_faces, p, dp) returns
RunLength ==
    /\ call.fn = "run_length"
    /\ call.pc = "called"
    /\ call' = [call EXCEPT !.pc = "returned",
                            !.len = run_length(call.map, call.unmeshed, call.p, call.dp)]
    /\ UNCHANGED cacheVars
    /\ UNCHANGED meshVars
    /\ UNCHANGED <<terrain, loop>>

ExpandNext == ExpandFace \/ RunLength

SpecExpand == ExpandInit /\ [][ExpandNext]_vars

(***************************************************************************)
(* terrain_gen on one column.  The four noise values enter through the two *)
(* numbers the column loop uses: the height expression cast to int, and    *)
(* 4.0 + noise2 * 8.0 cast to uint.                                        *)
(***************************************************************************)
\* uint arithmetic wraps modulo the word size (2^32 or 2^64 on the targets of
\* the build); 2^30 stands for it, every operand of the column loop other than
\* a wrapped one being far below it
UINT_MODULUS == 1073741824

uint_add(a, b) == (a + b) % UINT_MODULUS

uint_sub(a, b) == (a - b + UINT_MODULUS) % UINT_MODULUS

\* std::num::clamp
clamp(v, lo, hi) == IF v < lo THEN lo ELSE IF v > hi THEN hi ELSE v

\* `as uint` of a float with integer part v: v when it is not negative.  The
\* cast of a negative float is undefined: the conversion instruction of the
\* build gives the word 2^w + v or 0, and any other word is allowed, of which
\* a few small and a few wrapped ones are taken
as_uint(v) ==
    IF v >= 0 THEN {v}
    ELSE {UINT_MODULUS + v, 0, 1, CHUNK_SIZE, UINT_MODULUS - CHUNK_SIZE, UINT_MODULUS - 1}

\* the integer part of the height expression before the clamp (lines 234-240)
RawHeights == (-2)..(CHUNK_SIZE + 2)

\* the integer part of 4.0 + noise2 * 8.0 for noise2 in [-1, 1] (line 246)
DirtRaws == (-4)..12

\* line 248: `y < height - 2` on uint
below_top(y, height) == y < uint_sub(height, 2)

\* lines 244-253: the block type written at layer y of a column
column_blocktype(height, dirt_height, y) ==
    IF height <= 20 /\ uint_add(y, dirt_height) >= height
    THEN IF below_top(y, height) THEN BlockDirt ELSE BlockGrass
    ELSE BlockStone

\* terrain_gen reaches the loops of a column: the column of the fresh Map is Air
TerrainInit ==
    /\ CHUNK_SIZE \in TerrainChunkSizes
    /\ \E raw \in RawHeights, d \in DirtRaws :
          \E dirt_height \in as_uint(d) :
              terrain = [pc |-> "fill",
                         height |-> clamp(raw, 1, CHUNK_SIZE - 1),
                         dirt_height |-> dirt_height,
                         y |-> 0,
                         column |-> [y \in Axis |-> BlockAir]]
    /\ call = NoExpand
    /\ loop = NoLoop
    /\ CacheIdle
    /\ MeshIdle

\* one iteration of `for y in range(0, height)` (lines 243-256)
TerrainFill ==
    /\ terrain.pc = "fill"
    /\ terrain.y < terrain.height
    /\ terrain' = [terrain EXCEPT
                      !.column[terrain.y] =
                          column_blocktype(terrain.height, terrain.dirt_height, terrain.y),
                      !.y = terrain.y + 1,
                      !.pc = IF terrain.y + 1 < terrain.height THEN "fill" ELSE "water"]
    /\ UNCHANGED cacheVars
    /\ UNCHANGED meshVars
    /\ UNCHANGED <<call, loop>>

\* one iteration of `for y in range(height, water_height)` (lines 259-261);
\* indexing blocks[..][y][..] with y >= CHUNK_SIZE fails the task
TerrainWater ==
    /\ terrain.pc = "water"
    /\ terrain' =
          IF terrain.y >= water_height THEN [terrain EXCEPT !.pc = "done"]
          ELSE IF terrain.y >= CHUNK_SIZE THEN [terrain EXCEPT !.pc = "failed"]
          ELSE [terrain EXCEPT !.column[terrain.y] = BlockWater, !.y = terrain.y + 1]
    /\ UNCHANGED cacheVars
    /\ UNCHANGED meshVars
    /\ UNCHANGED <<call, loop>>

TerrainNext == TerrainFill \/ TerrainWater

SpecTerrain == TerrainInit /\ [][TerrainNext]_vars

(***************************************************************************)
(* The loops taken one iteration at a time: the `loop` of run_length, the  *)
(* merge pass of one face, the `while` of load.                            *)
(***************************************************************************)
\* the grids whose merge pass is followed
MergeGrids == ScenarioGrids \cup {BandedGrid}

\* the used_time of the chunks the eviction loop is entered with
LoopTimes == 0..1

\* the keys of those chunks, in the order they were loaded
LoopKeySeq == BackgroundSeq \o [i \in 1..NumCoords |-> CoordSeq[i]]

\* the n-th chunk loaded, as chunk_gen makes it when no buffer has been deleted
LoopChunk(s, n, t) ==
    [x |-> LoopKeySeq[n][1], z |-> LoopKeySeq[n][2],
     map |-> <<s, LoopKeySeq[n][1], LoopKeySeq[n][2]>>,
     mesh |-> [vertex_buffer |-> 4 * n - 3, normal_buffer |-> 4 * n - 2,
               blocktype_buffer |-> 4 * n - 1, element_buffer |-> 4 * n],
     used_time |-> t]

\* the caches the loop is entered with, the new chunk inserted: up to
\* MAX_CHUNKS + 1 chunks, any used_time
LoopCaches(s) ==
    UNION { { [k \in { LoopKeySeq[n] : n \in 1..size } |->
                 LoopChunk(s, CHOOSE n \in 1..size : LoopKeySeq[n] = k, t[k])]
              : t \in [{ LoopKeySeq[n] : n \in 1..size } -> LoopTimes] }
            : size \in 1..(MAX_CHUNKS + 1) }

\* lines 274-277: the arrays mesh_gen declares before the loop over faces
NoArrays ==
    [unmeshed |-> {}, vertices |-> <<>>, normals |-> <<>>,
     blocktypes |-> <<>>, elements |-> <<>>, quads |-> <<>>]

\* the arrays after the first n faces of mesh_gen
RECURSIVE faces_done(_, _, _)
faces_done(m, chunk_pos, n) ==
    IF n = 0 THEN NoArrays
    ELSE mesh_face(m, chunk_pos, faces[n], faces_done(m, chunk_pos, n - 1))

\* the state mesh_gen enters the merge pass of face f with (line 321): the
\* arrays as the faces before left them, the mask of the exposure pass
MergeStart(m, f, st) == [st EXCEPT !.unmeshed = exposure_pass(m, faces[f + 1])]

LoopInit ==
    /\ \/ /\ CHUNK_SIZE = ScenarioChunkSize
          /\ \E g \in ExpandGrids, u \in Masks, d \in Directions :
                \E q \in Seeds_of(u) :
                    loop = [kind |-> "run_length", pc |-> "loop", map |-> g, unmeshed |-> u,
                            blocktype |-> g[q[1]][q[2]][q[3]], start |-> q, p |-> q,
                            dp |-> d, len |-> 1]
          /\ CacheIdle
       \/ /\ CHUNK_SIZE = ScenarioChunkSize
          /\ \E g \in MergeGrids :
                loop = [kind |-> "merge", pc |-> "loop", map |-> g, face |-> 0, n |-> 0,
                        num_elements_start |-> 0,
                        st |-> MergeStart(g, 0, NoArrays)]
          /\ CacheIdle
       \/ /\ CHUNK_SIZE = BuildChunkSize
          /\ seed \in Seeds
          /\ cache \in LoopCaches(seed)
          /\ buffers = UNION { MeshHandles(cache[k].mesh) : k \in DOMAIN cache }
          /\ stale = FALSE
          /\ loader = "live"
          /\ clock = 1
          /\ last = NoCall
          /\ loop = [kind |-> "evict", pc |-> "loop", removals |-> 0]
    /\ call = NoExpand
    /\ terrain = NoTerrain
    /\ MeshIdle

\* one iteration of the `loop` of run_length (lines 443-457)
RunLoopStep ==
    /\ loop.kind = "run_length"
    /\ loop.pc = "loop"
    /\ LET q == VecAdd(loop.p, loop.dp)
       IN  loop' = IF run_continues(loop.map, loop.unmeshed, loop.blocktype, q)
                   THEN [loop EXCEPT !.p = q, !.len = loop.len + 1]
                   ELSE [loop EXCEPT !.p = q, !.pc = "exit"]
    /\ UNCHANGED cacheVars
    /\ UNCHANGED meshVars
    /\ UNCHANGED <<call, terrain>>

\* one iteration of the loops over i, j, k of a face (lines 321-360); at
\* their end the range of the face is recorded (line 362) and the next face
\* is entered with the arrays as they are (lines 294-319), or the loop over
\* faces ends
MergeStep ==
    /\ loop.kind = "merge"
    /\ loop.pc = "loop"
    /\ IF loop.n = CHUNK_SIZE * CHUNK_SIZE * CHUNK_SIZE
       THEN /\ face_ranges' = [face_ranges EXCEPT ![faces[loop.face + 1].index] =
                                  face_range(loop.num_elements_start, loop.st.elements)]
            /\ IF loop.face + 1 = NUM_FACES
               THEN loop' = [loop EXCEPT !.pc = "exit"]
               ELSE loop' = [loop EXCEPT !.face = loop.face + 1, !.n = 0,
                                         !.num_elements_start = Len(loop.st.elements),
                                         !.st = MergeStart(loop.map, loop.face + 1, loop.st)]
       ELSE /\ \E st \in { merge_step(loop.map, <<0, 0, 0>>, faces[loop.face + 1],
                                       loop.n, loop.st) } :
                  loop' = [loop EXCEPT !.n = loop.n + 1, !.st = st]
            /\ UNCHANGED face_ranges
    /\ UNCHANGED cacheVars
    /\ UNCHANGED <<CHUNK_SIZE, map, chunk_position, pc, face_i, unmeshed_faces, vertices,
                   normals, blocktypes, elements, quads, mesh>>
    /\ UNCHANGED <<call, terrain>>

\* one test of `while self.cache.len() > MAX_CHUNKS` and, when it holds, one
\* iteration (lines 72-75): min_by, remove, and the drop of the removed chunk
EvictStep ==
    /\ loop.kind = "evict"
    /\ loop.pc = "loop"
    /\ IF Cardinality(DOMAIN cache) > MAX_CHUNKS
       THEN \E k \in MinBy(cache) :
               LET gl == DropMesh([live |-> buffers, stale |-> stale], cache[k].mesh)
               IN  /\ cache' = Remove(cache, k)
                   /\ buffers' = gl.live
                   /\ stale' = gl.stale
                   /\ loop' = [loop EXCEPT !.removals = loop.removals + 1]
       ELSE /\ loop' = [loop EXCEPT !.pc = "exit"]
            /\ UNCHANGED <<cache, buffers, stale>>
    /\ UNCHANGED <<seed, loader, clock, last>>
    /\ UNCHANGED meshVars
    /\ UNCHANGED <<call, terrain>>

LoopNext == RunLoopStep \/ MergeStep \/ EvictStep

\* execution is single-threaded and synchronous: a loop that can take its
\* next iteration takes it.  Fairness is stated for the two loops without a
\* bound in their text; the loops of the merge pass are range loops, whose
\* progress is the scan position
SpecLoops ==
    LoopInit /\ [][LoopNext]_vars /\ WF_vars(RunLoopStep) /\ WF_vars(EvictStep)

(***************************************************************************)
(* Claims about the cache.                                                 *)
(***************************************************************************)
EvictedKeys == { last.evicted[i].key : i \in 1..Len(last.evicted) }

EvictedHandles ==
    UNION { MeshHandles(last.evicted[i].mesh) \ {0} : i \in 1..Len(last.evicted) }

OwnedHandles == UNION { MeshHandles(cache[k].mesh) \ {0} : k \in DOMAIN cache }

\* C1: whenever a call has returned the cache holds at most MAX_CHUNKS chunks,
\* and MAX_CHUNKS = (2*VISIBLE_RADIUS)^2 * 2
C1_CacheBound ==
    /\ Cardinality(DOMAIN cache) <= MAX_CHUNKS
    /\ MAX_CHUNKS = (2 * VISIBLE_RADIUS) * (2 * VISIBLE_RADIUS) * 2

\* a load has just evicted an entry and left the cache full
C1_Witness ==
    /\ last.op = "load"
    /\ Len(last.evicted) = 1
    /\ Cardinality(DOMAIN cache) = MAX_CHUNKS

\* C2: a touch stamps the touched entry with the reading of the clock and
\* leaves the others as they are; every entry a load evicts has a used_time no
\* larger than that of any entry the load leaves in the cache; and when the
\* cache is full, one entry B is strictly older than every other and the clock
\* has moved on, loading a new coordinate C evicts exactly B (the scenario
\* load A, load B, touch A, load C at the capacity of the build: B is the one
\* entry that goes, although A was loaded before it)
C2_LRUStep ==
    /\ last'.op = "touch" =>
          /\ DOMAIN cache' = DOMAIN cache
          /\ cache'[last'.coord].used_time = clock'
          /\ clock' >= cache[last'.coord].used_time
          /\ \A j \in DOMAIN cache \ {last'.coord} : cache'[j] = cache[j]
    /\ last'.op = "load" =>
          /\ \A i \in 1..Len(last'.evicted) : \A j \in DOMAIN cache' :
                last'.evicted[i].used_time <= cache'[j].used_time
          /\ \A B \in DOMAIN cache :
                ( /\ Cardinality(DOMAIN cache) = MAX_CHUNKS
                  /\ last'.coord \notin DOMAIN cache
                  /\ \A A \in DOMAIN cache \ {B} :
                        cache[B].used_time < cache[A].used_time
                  /\ cache[B].used_time < clock' )
                => /\ DOMAIN cache' = (DOMAIN cache \ {B}) \cup {last'.coord}
                   /\ Len(last'.evicted) = 1
                   /\ last'.evicted[1].key = B

C2_LRU == [][C2_LRUStep]_vars

\* A, the background chunk loaded first, and B, the one loaded second, were
\* both loaded at 0 and the others later; A was touched after that, and the
\* load of a new coordinate C into the full cache has evicted B, the second
\* chunk loaded, and left A and C cached.  The background chunks are loaded
\* once, in order: A's used_time is above B's only through the touch
C2_Witness ==
    /\ last.op = "load"
    /\ last.coord \in Coords
    /\ Len(last.evicted) = 1
    /\ last.evicted[1].key = BackgroundSeq[2]
    /\ last.evicted[1].used_time = 0
    /\ Cardinality(DOMAIN cache) = MAX_CHUNKS
    /\ BackgroundSeq[1] \in DOMAIN cache
    /\ cache[BackgroundSeq[1]].used_time > 0
    /\ \A j \in DOMAIN cache : cache[j].used_time > 0
    /\ last.coord \in DOMAIN cache

\* C3 (as claimed): after load(x, z) returns the cache holds a chunk for (x, z)
C3_ResidentAfterLoad ==
    last.op = "load" => last.coord \in DOMAIN cache

\* C4: a load of a cached coordinate replaces that entry by a freshly generated
\* chunk with the same grid, keeps the key set, evicts nothing and leaves every
\* other entry as it was
C4_ReloadStep ==
    (last'.op = "load" /\ last'.coord \in DOMAIN cache) =>
        /\ DOMAIN cache' = DOMAIN cache
        /\ last'.evicted = <<>>
        /\ last'.replaced
        /\ cache'[last'.coord].map = cache[last'.coord].map
        /\ cache'[last'.coord].used_time = clock'
        /\ MeshHandles(cache'[last'.coord].mesh) = last'.created
        /\ last'.released = MeshHandles(cache[last'.coord].mesh) \ {0}
        /\ \A k \in DOMAIN cache \ {last'.coord} : cache'[k] = cache[k]

C4_Reload == [][C4_ReloadStep]_vars

\* a full cache after the reload of one of its coordinates
C4_Witness ==
    /\ last.op = "load"
    /\ last.replaced
    /\ Cardinality(DOMAIN cache) = MAX_CHUNKS
    /\ clock > 0

\* C5: DeleteBuffers is never given a name that is not a live buffer (no
\* second release); the live buffers are exactly the handles of the cached
\* chunks (no leak, and no cached chunk holds a released handle); no two
\* cached chunks share a handle; after teardown no buffer is left
C5_ExactlyOnceRelease ==
    /\ ~stale
    /\ buffers = OwnedHandles
    /\ \A k \in DOMAIN cache : Cardinality(MeshHandles(cache[k].mesh) \ {0}) = 4
    /\ \A j, k \in DOMAIN cache :
          j # k => MeshHandles(cache[j].mesh) \cap MeshHandles(cache[k].mesh) = {}
    /\ loader # "live" => buffers = {}

\* the teardown of a full cache released the buffers of its chunks
C5_Witness ==
    /\ loader = "dropped"
    /\ last.op = "drop"
    /\ Cardinality(last.released) = 4 * MAX_CHUNKS
    /\ buffers = {}

\* C6 (as claimed): the steps of load and touch release the buffers of evicted
\* chunks only
C6_OnlyEviction ==
    last.op \in {"load", "touch"} => last.released = EvictedHandles

\* C6 (amended): a chunk of the cache is destroyed by a load or touch step only
\* when the eviction loop removes it, the cache being over capacity and its
\* used_time the smallest, or when the load is of its own coordinate and the
\* insertion replaces it; touch destroys nothing
C6_DestroyStep ==
    last'.op \in {"load", "touch"} =>
        \A k \in DOMAIN cache :
            (k \notin DOMAIN cache' \/ MeshHandles(cache[k].mesh) \cap last'.released # {})
            => /\ last'.op = "load"
               /\ \/ k = last'.coord /\ last'.replaced
                  \/ /\ \E i \in 1..Len(last'.evicted) :
                           /\ last'.evicted[i].key = k
                           /\ last'.evicted[i].mesh = cache[k].mesh
                     /\ Cardinality(DOMAIN cache \cup {last'.coord}) > MAX_CHUNKS
                     /\ \A j \in DOMAIN cache' : cache[k].used_time <= cache'[j].used_time

C6_DestroyOnlyByEvictionOrReplace == [][C6_DestroyStep]_vars

\* both ways have happened: a load that evicted, and a load that replaced
C6_Witness ==
    /\ last.op = "load"
    /\ last.replaced
    /\ last.released # {}
    /\ last.evicted = <<>>
    /\ Cardinality(DOMAIN cache) = MAX_CHUNKS

\* C7 (as claimed): a load whose upload failed reports a failure and leaves no
\* chunk built from that upload in the cache
C7_UploadFailureSurfaced ==
    (last.op = "load" /\ last.upload_failed) =>
        /\ last.ret = "failure"
        /\ \/ last.coord \notin DOMAIN cache
           \/ MeshHandles(cache[last.coord].mesh) # last.created

(***************************************************************************)
(* Claims about the mesher.  The quads are read back from the arrays       *)
(* mesh_gen builds: quad n is vertices[4n-3..4n], its orientation is its   *)
(* normal, its block type the ids pushed with its vertices.                *)
(***************************************************************************)
QuadCount == Len(vertices) \div 4

\* the corners of quad n, relative to the chunk
QuadCorners(n) ==
    { VecAdd(vertices[4 * (n - 1) + i], VecScale(chunk_position, -1)) : i \in 1..4 }

QuadNormal(n) == normals[4 * (n - 1) + 1]

\* the index of the orientation quad n faces
QuadFace(n) == (CHOOSE f \in 1..NUM_FACES : faces[f].normal = QuadNormal(n)) - 1

SetMax(S) == CHOOSE n \in S : \A o \in S : n >= o

\* the coordinates along axis a of the cells whose face lies in quad n: on the
\* axis of the normal the one layer behind the quad's plane, on the other two
\* the span of the corners
QuadSpan(n, a) ==
    LET lo == SetMin({ v[a] : v \in QuadCorners(n) })
        hi == SetMax({ v[a] : v \in QuadCorners(n) })
    IN  IF QuadNormal(n)[a] > 0 THEN {lo - 1}
        ELSE IF QuadNormal(n)[a] < 0 THEN {lo}
        ELSE lo..(hi - 1)

QuadCells(n) == QuadSpan(n, 1) \X QuadSpan(n, 2) \X QuadSpan(n, 3)

\* the quads of orientation f
QuadsOf(f) == { n \in 1..QuadCount : QuadFace(n) = f }

\* the cells covered by the quads of orientation f
CoveredCells(f) == UNION { QuadCells(n) : n \in QuadsOf(f) }

Solid(c) == map[c[1]][c[2]][c[3]] # BlockAir

\* the per-voxel check of the exposure of the face f of cell c
Exposed(c, f) ==
    /\ map[c[1]][c[2]][c[3]] # BlockAir
    /\ ~block_exists(map, c[1] + faces[f + 1].normal[1], c[2] + faces[f + 1].normal[2],
                     c[3] + faces[f + 1].normal[3])

FacesDone == 0..(face_i - 1)

\* C8: for every orientation meshed, the cells covered by its quads are exactly
\* the cells whose face is exposed, no two of its quads share a cell (every
\* exposed face is covered once), and no quad reaches outside the grid
C8_MeshCoverage ==
    /\ \A f \in FacesDone :
          /\ CoveredCells(f) = { c \in Cells : Exposed(c, f) }
          /\ \A n, o \in QuadsOf(f) : n # o => QuadCells(n) \cap QuadCells(o) = {}
    /\ \A n \in 1..QuadCount : QuadCells(n) \subseteq Cells /\ QuadCells(n) # {}

\* a finished mesh in which an orientation has several quads, a quad covers
\* several cells, and a solid cell has a face that is not exposed
C8_Witness ==
    /\ pc = "done"
    /\ \E n, o \in 1..QuadCount : n # o /\ QuadFace(n) = QuadFace(o)
    /\ \E n \in 1..QuadCount : Cardinality(QuadCells(n)) >= 3
    /\ \E c \in Cells : \E f \in FacesDone : Solid(c) /\ ~Exposed(c, f) /\ f # 5

\* C9: every quad covers only cells of the block type of its seed cell, the
\* type pushed with its 4 vertices; all its cells were in the mask of its
\* orientation when it was emitted; and it is one cell thick along di
C9_QuadUniform ==
    \A n \in 1..QuadCount :
        /\ QuadCells(n) \subseteq Cells
        /\ quads[n].p \in QuadCells(n)
        /\ quads[n].face = QuadFace(n)
        /\ \A c \in QuadCells(n) :
              /\ map[c[1]][c[2]][c[3]] = map[quads[n].p[1]][quads[n].p[2]][quads[n].p[3]]
              /\ \A i \in 1..4 : blocktypes[4 * (n - 1) + i] = map[c[1]][c[2]][c[3]]
              /\ BlockBitmap_index(c[1], c[2], c[3]) \in quads[n].mask
              /\ Solid(c)
        /\ \A a \in 1..3 :
              faces[quads[n].face + 1].di[a] = 1 =>
                  /\ quads[n].dim[a] = 1
                  /\ Cardinality(QuadSpan(n, a)) = 1

\* a quad of several cells whose run along dk stopped at a masked cell of
\* another block type
C9_Witness ==
    \E n \in 1..QuadCount :
        LET q == quads[n]
            c == VecAdd(q.p, VecMul(faces[q.face + 1].dk, q.dim))
        IN  /\ Cardinality(QuadCells(n)) >= 2
            /\ c \in Cells
            /\ BlockBitmap_index(c[1], c[2], c[3]) \in q.mask
            /\ map[c[1]][c[2]][c[3]] # map[q.p[1]][q.p[2]][q.p[3]]

\* the policy for the neighbour nb of a solid cell along the normal
PolicyExposed(nb) ==
    IF nb[2] < 0 THEN FALSE
    ELSE IF nb \notin Cells THEN TRUE
    ELSE map[nb[1]][nb[2]][nb[3]] = BlockAir

\* C10: a solid cell gets a face in an orientation exactly when its neighbour
\* along the normal is above or beside the grid, or is an Air cell of the grid;
\* a neighbour below the grid counts as solid whatever its x and z, so no cell
\* at y = 0 gets a bottom face
C10_BoundaryPolicy ==
    /\ \A f \in FacesDone :
          { c \in CoveredCells(f) : c \in Cells /\ Solid(c) }
              = { c \in Cells : Solid(c) /\ PolicyExposed(VecAdd(c, faces[f + 1].normal)) }
    /\ \A x, z \in -1..CHUNK_SIZE : block_exists(map, x, -1, z)
    /\ face_i = NUM_FACES => \A c \in CoveredCells(5) : c[2] # 0

\* a finished mesh of a grid with a solid cell at y = 0, solid cells on the
\* upper boundary planes, and solid cells with an Air and with a solid
\* neighbour inside the grid
C10_Witness ==
    /\ pc = "done"
    /\ Solid(<<0, 0, 0>>)
    /\ Solid(<<3, 3, 3>>)
    /\ <<3, 3, 3>> \in CoveredCells(0) \cap CoveredCells(2) \cap CoveredCells(4)
    /\ \E c \in CoveredCells(5) : c[2] > 0
    /\ \E c \in Cells : Solid(c) /\ c[2] < 3 /\ c \notin CoveredCells(4)

\* the element positions the range of orientation f names
RangeSet(f) == (face_ranges[f][1] + 1)..(face_ranges[f][1] + face_ranges[f][2])

\* C11: the ranges recorded so far are pairwise disjoint, together they are
\* exactly the positions of the element array, the count of an orientation is
\* 6 times the number of its quads, and an orientation without an exposed
\* face has count 0
C11_RangesPartition ==
    /\ \A f, g \in FacesDone : f # g => RangeSet(f) \cap RangeSet(g) = {}
    /\ UNION { RangeSet(f) : f \in FacesDone } = 1..Len(elements)
    /\ \A f \in FacesDone :
          /\ face_ranges[f][1] >= 0
          /\ face_ranges[f][2] = 6 * Cardinality(QuadsOf(f))
          /\ ({ c \in Cells : Exposed(c, f) } = {}) => face_ranges[f][2] = 0
    /\ \A f \in (0..(NUM_FACES - 1)) \ FacesDone : face_ranges[f] = <<0, 0>>

\* a finished mesh in which an orientation has several quads, a later one
\* starts past offset 0, and the bottom orientation, with no exposed face, has
\* an empty range at the end of the array
C11_Witness ==
    /\ pc = "done"
    /\ \E f \in FacesDone : face_ranges[f][2] >= 12
    /\ face_ranges[4][1] > 0 /\ face_ranges[4][2] >= 6
    /\ face_ranges[5] = <<Len(elements), 0>>
    /\ Len(elements) > 0

\* the coordinate load keys the chunk of the run by
MeshKey == <<chunk_position[1], chunk_position[3]>>

\* C12: for the all-Air grid no quad is emitted in any orientation, every
\* range has count 0, no buffer is ever generated, the four handles of the
\* Mesh are 0, the chunk is inserted into the cache with that mesh, and
\* dropping it deletes nothing that is not a buffer
C12_EmptyGrid ==
    map = UniformGrid(BlockAir) =>
        /\ vertices = <<>> /\ normals = <<>> /\ blocktypes = <<>> /\ elements = <<>>
        /\ quads = <<>>
        /\ \A f \in 0..(NUM_FACES - 1) : face_ranges[f][2] = 0
        /\ buffers = {}
        /\ stale = FALSE
        /\ MeshHandles(mesh) = {0}
        /\ pc = "cached" =>
              /\ DOMAIN cache = {MeshKey}
              /\ cache[MeshKey].mesh = mesh
              /\ cache[MeshKey].map = map
              /\ last.evicted = <<>>

\* the all-Air grid has been meshed and its chunk is in the cache
C12_Witness ==
    /\ map = UniformGrid(BlockAir)
    /\ pc = "cached"
    /\ face_i = NUM_FACES
    /\ MeshKey \in DOMAIN cache

\* the cells of the Stone column of ColumnGrid
ColumnCells == { <<0, y, 0>> : y \in 0..2 }

\* the quads of the top and of the four side orientations for ColumnGrid: one
\* quad on top, over the cell at y = 2, and one quad per side over the column
ColumnTopAndSides ==
    /\ Cardinality(QuadsOf(4)) = 1
    /\ \A n \in QuadsOf(4) : QuadCells(n) = {<<0, 2, 0>>}
    /\ \A f \in 0..3 :
          /\ Cardinality(QuadsOf(f)) = 1
          /\ \A n \in QuadsOf(f) : QuadCells(n) = ColumnCells

\* C13 as stated: for the Stone column the top orientation has one quad at
\* y = 2 over (0, 0), the bottom orientation has one quad at y = 0, and each
\* side orientation has one quad
C13_ColumnScenario ==
    (map = ColumnGrid /\ face_i = NUM_FACES) =>
        /\ ColumnTopAndSides
        /\ Cardinality(QuadsOf(5)) = 1
        /\ \A n \in QuadsOf(5) : QuadCells(n) = {<<0, 0, 0>>}

\* C13 amended: for the Stone column the top orientation has one quad at y = 2
\* over (0, 0), each side orientation has one quad over the whole column, and
\* the bottom orientation has no quad, 5 quads in all
C13_ColumnNoBottom ==
    (map = ColumnGrid /\ face_i = NUM_FACES) =>
        /\ ColumnTopAndSides
        /\ QuadsOf(5) = {}
        /\ face_ranges[5][2] = 0
        /\ QuadCount = 5

\* the Stone column has been meshed
C13_Witness ==
    /\ map = ColumnGrid
    /\ pc = "done"
    /\ face_i = NUM_FACES
    /\ QuadCount > 0

(***************************************************************************)
(* Claims about expand_face and run_length.                                *)
(***************************************************************************)
\* cell c of the call's grid is inside the grid, in the mask, and of the block
\* type of the start cell
RunCell(c) ==
    /\ c \in Cells
    /\ BlockBitmap_index(c[1], c[2], c[3]) \in call.unmeshed
    /\ call.map[c[1]][c[2]][c[3]] = call.map[call.p[1]][call.p[2]][call.p[3]]

\* the rectangle anchored at the start cell, a cells along dk, b along dj
AnchoredRect(a, b) ==
    { VecAdd(call.p, VecAdd(VecScale(faces[call.face + 1].dk, k),
                            VecScale(faces[call.face + 1].dj, j)))
        : k \in 0..(a - 1), j \in 0..(b - 1) }

ValidRect(a, b) == \A c \in AnchoredRect(a, b) : RunCell(c)

\* the extent of the returned rectangle along direction d
DimAlong(d) == SetMax({ call.dim[a] * d[a] : a \in 1..3 })

RetK == DimAlong(faces[call.face + 1].dk)

RetJ == DimAlong(faces[call.face + 1].dj)

ExpandReturned == call.fn = "expand_face" /\ call.pc = "returned"

\* C14 as stated: no anchored rectangle of masked cells of the seed's type
\* covers more cells than the rectangle expand_face returns
C14_LargestRect ==
    ExpandReturned =>
        /\ ValidRect(RetK, RetJ)
        /\ \A a, b \in 1..CHUNK_SIZE : ValidRect(a, b) => a * b <= RetK * RetJ

\* C14 amended: the rectangle returned consists of masked cells of the seed's
\* type, it is as long along dk as any such anchored rectangle, and among
\* those of that length along dk it is the widest along dj
C14_LargestOfFullRun ==
    ExpandReturned =>
        /\ ValidRect(RetK, RetJ)
        /\ call.dim = face_dim(faces[call.face + 1], RetK, RetJ)
        /\ \A a, b \in 1..CHUNK_SIZE :
              ValidRect(a, b) => /\ a <= RetK
                                 /\ (a = RetK => b <= RetJ)

\* expand_face has returned a rectangle of several cells although a shorter
\* and wider anchored rectangle covers more
C14_Witness ==
    /\ ExpandReturned
    /\ RetK >= 2
    /\ \E a, b \in 1..CHUNK_SIZE : ValidRect(a, b) /\ a < RetK /\ a * b > RetK * RetJ

\* the cell i steps from the start cell of the call along dp
RunAt(i) == VecAdd(call.p, VecScale(call.dp, i))

\* C15: run_length returns L >= 1, the L cells from the start along dp are
\* inside the grid, masked and of the start cell's type, and the cell after
\* them is outside the grid, not masked or of another type; the rectangle
\* expand_face returns lies inside the grid on masked cells of the seed's type
\* and cannot be extended by a row along dk or by a column along dj
C15_RunMaximal ==
    /\ (call.fn = "run_length" /\ call.pc = "returned") =>
          /\ call.len >= 1
          /\ \A i \in 0..(call.len - 1) : RunCell(RunAt(i))
          /\ ~RunCell(RunAt(call.len))
    /\ ExpandReturned =>
          /\ AnchoredRect(RetK, RetJ) \subseteq Cells
          /\ ValidRect(RetK, RetJ)
          /\ ~ValidRect(RetK + 1, RetJ)
          /\ ~ValidRect(RetK, RetJ + 1)

\* a run of several cells has stopped at the edge of the grid although the
\* linear index of the cell past the edge is in the mask
C15_Witness ==
    /\ call.fn = "run_length"
    /\ call.pc = "returned"
    /\ call.len >= 2
    /\ RunAt(call.len) \notin Cells
    /\ BlockBitmap_contains(call.unmeshed, RunAt(call.len)[1], RunAt(call.len)[2],
                            RunAt(call.len)[3])

(***************************************************************************)
(* Claims about terrain_gen.                                               *)
(***************************************************************************)
\* the layers of the column written by the first loop so far
FilledLayers ==
    IF terrain.pc = "fill" THEN 0..(terrain.y - 1) ELSE 0..(terrain.height - 1)

\* C16: in a column of height h <= 20, a layer y below h with
\* y + dirt_height >= h is Grass when it is one of the top two layers
\* (y >= h - 2) and Dirt otherwise, and every other layer below h is Stone
C16_DirtGrassLayering ==
    \A y \in FilledLayers :
        terrain.column[y] =
            IF terrain.height <= 20 /\ y + terrain.dirt_height >= terrain.height
            THEN IF y >= terrain.height - 2 THEN BlockGrass ELSE BlockDirt
            ELSE BlockStone

(***************************************************************************)
(* The frame of load.                                                      *)
(***************************************************************************)
\* the entries other than the loaded coordinate that a step removes
OthersRemoved == (DOMAIN cache \ {last'.coord}) \ DOMAIN cache'

\* C17: a load of (x, z) leaves the grid, mesh and used_time of every other
\* entry that stays cached as they were, with its buffers still live, adds no
\* other entry, and removes at most one other entry, and that only when
\* (x, z) was not cached and the cache was full
C17_LoadFrameStep ==
    last'.op = "load" =>
        /\ \A j \in DOMAIN cache' \ {last'.coord} :
              /\ j \in DOMAIN cache
              /\ cache'[j] = cache[j]
              /\ MeshHandles(cache'[j].mesh) \subseteq buffers'
        /\ Cardinality(OthersRemoved) <= 1
        /\ OthersRemoved # {} =>
              /\ last'.coord \notin DOMAIN cache
              /\ Cardinality(DOMAIN cache) = MAX_CHUNKS

C17_LoadFrame == [][C17_LoadFrameStep]_vars

\* a load into a full cache has evicted another entry and left a third one,
\* loaded earlier, in place
C17_Witness ==
    /\ last.op = "load"
    /\ Len(last.evicted) = 1
    /\ last.evicted[1].key # last.coord
    /\ \E j \in DOMAIN cache : j # last.coord /\ cache[j].used_time < clock

(***************************************************************************)
(* The index structure of the quads.                                       *)
(***************************************************************************)
\* the offsets of the two triangles of a quad
QuadPattern == <<0, 1, 2, 3, 2, 1>>

\* C18: 4 vertices, 4 normals, 4 block types and 6 elements are emitted per
\* quad; the elements of quad n are base + 0, 1, 2, 3, 2, 1, base being the
\* number of vertices emitted before it, so every element is below the number
\* of vertices and names one of the quad's own 4 vertices
C18_QuadIndices ==
    /\ Len(vertices) = 4 * Len(quads)
    /\ Len(normals) = 4 * Len(quads)
    /\ Len(blocktypes) = 4 * Len(quads)
    /\ Len(elements) = 6 * Len(quads)
    /\ \A n \in 1..Len(quads) :
          /\ \A i \in 1..6 :
                /\ elements[6 * (n - 1) + i] = 4 * (n - 1) + QuadPattern[i]
                /\ elements[6 * (n - 1) + i] < Len(vertices)
                /\ elements[6 * (n - 1) + i] \in (4 * (n - 1))..(4 * (n - 1) + 3)
          /\ \A i \in 2..4 :
                /\ normals[4 * (n - 1) + i] = normals[4 * (n - 1) + 1]
                /\ blocktypes[4 * (n - 1) + i] = blocktypes[4 * (n - 1) + 1]

\* a finished mesh of several quads in several orientations
C18_Witness ==
    /\ pc = "done"
    /\ Len(quads) >= 7
    /\ elements[Len(elements)] = Len(vertices) - 3
    /\ \E f, g \in FacesDone : f # g /\ face_ranges[f][2] >= 12 /\ face_ranges[g][2] >= 6

(***************************************************************************)
(* The uniform solid grid.                                                 *)
(***************************************************************************)
\* the cells of the boundary plane that orientation f faces out of
BoundaryPlane(f) == { c \in Cells : VecAdd(c, faces[f + 1].normal) \notin Cells }

\* C19: for a grid of one non-Air block type, each of the front, back, right,
\* left and top orientations has exactly one quad, covering the CHUNK_SIZE x
\* CHUNK_SIZE cells of its boundary plane, the bottom orientation has none,
\* and the mesh has 5 quads
C19_UniformSolid ==
    (\E t \in {BlockGrass, BlockStone, BlockDirt, BlockWater} : map = UniformGrid(t)) =>
        /\ \A f \in FacesDone \ {5} :
              /\ Cardinality(QuadsOf(f)) = 1
              /\ \A n \in QuadsOf(f) :
                    /\ QuadCells(n) = BoundaryPlane(f)
                    /\ Cardinality(QuadCells(n)) = CHUNK_SIZE * CHUNK_SIZE
                    /\ blocktypes[4 * (n - 1) + 1] = map[0][0][0]
        /\ QuadsOf(5) = {}
        /\ face_i = NUM_FACES => QuadCount = 5

\* a uniform Water grid has been meshed
C19_Witness ==
    /\ map = UniformGrid(BlockWater)
    /\ pc = "done"
    /\ QuadCount = 5
    /\ \A f \in 0..4 : face_ranges[f][2] = 6

(***************************************************************************)
(* Termination of the loops.                                               *)
(***************************************************************************)
\* what holds when a loop has exited: run_length has counted at most the cells
\* up to the edge of the grid and returns what the function returns; the
\* merge passes have built what mesh_gen builds and recorded the range of
\* each face, and each has left its mask empty; the eviction loop has left the cache within MAX_CHUNKS after at most
\* one removal, the buffers of the removed chunk deleted
LoopExitOk ==
    /\ (loop.kind = "merge" /\ loop.n = CHUNK_SIZE * CHUNK_SIZE * CHUNK_SIZE) =>
          loop.st.unmeshed = {}
    /\ loop.pc = "exit" =>
          /\ loop.kind = "run_length" =>
                /\ loop.len <= CHUNK_SIZE
                /\ loop.len = run_length(loop.map, loop.unmeshed, loop.start, loop.dp)
          /\ loop.kind = "merge" =>
                /\ loop.face + 1 = NUM_FACES
                /\ loop.st = faces_done(loop.map, <<0, 0, 0>>, NUM_FACES)
                /\ \A f \in 0..(NUM_FACES - 1) :
                      face_ranges[f] =
                          <<Len(faces_done(loop.map, <<0, 0, 0>>, f).elements),
                            Len(faces_done(loop.map, <<0, 0, 0>>, f + 1).elements)
                              - Len(faces_done(loop.map, <<0, 0, 0>>, f).elements)>>
          /\ loop.kind = "evict" =>
                /\ Cardinality(DOMAIN cache) <= MAX_CHUNKS
                /\ loop.removals <= 1
                /\ buffers = OwnedHandles
                /\ ~stale

\* a step of the merge pass moves the scan position forward by one, up to
\* CHUNK_SIZE^3, where the pass of the next face starts or, after the last
\* face, the loop exits
MergeProgress ==
    (loop.kind = "merge" /\ loop.pc = "loop") =>
        /\ loop.n <= CHUNK_SIZE * CHUNK_SIZE * CHUNK_SIZE
        /\ loop.face < NUM_FACES
        /\ IF loop.n < CHUNK_SIZE * CHUNK_SIZE * CHUNK_SIZE
           THEN loop'.n = loop.n + 1 /\ loop'.face = loop.face /\ loop'.pc = "loop"
           ELSE IF loop.face + 1 < NUM_FACES
                THEN loop'.n = 0 /\ loop'.face = loop.face + 1 /\ loop'.pc = "loop"
                ELSE loop'.pc = "exit"

\* C20: the loop of run_length and the eviction loop of load reach their
\* exit; the merge pass of a face advances through its CHUNK_SIZE^3 scan
\* positions to its end, where the mask is empty, and after the pass of the
\* last face mesh_gen leaves the loop
C20_Termination ==
    /\ <>(loop.pc = "exit" \/ loop.kind = "merge")
    /\ [][MergeProgress]_vars
    /\ []LoopExitOk

\* the loop of run_length has exited after running to the edge of the grid,
\* where the mask still held the linear index of the cell past the edge
C20_Witness ==
    /\ loop.kind = "run_length"
    /\ loop.pc = "exit"
    /\ loop.len >= 3
    /\ loop.p \notin Cells
    /\ BlockBitmap_contains(loop.unmeshed, loop.p[1], loop.p[2], loop.p[3])

====
